---- MODULE Spec2Model ----
(***************************************************************************)
(* Model of restapi/serializers.py: the action registry, the viewset       *)
(* factory, the dynamic-field serializers, the choice browser and the      *)
(* generated action endpoints.                                             *)
(*                                                                         *)
(* Names (class names, field names, query values) are sequences of         *)
(* one-character strings, so that split/strip/startswith/lower and the     *)
(* snake-case conversion are computed character by character.              *)
(***************************************************************************)
EXTENDS Naturals, Integers, Sequences, FiniteSets, TLC

VARIABLES
    ACTIONS_,    \* serializers.py:23  ACTIONS (a reserved word here), key -> class serial
    declared,    \* the Action classes declared so far, in declaration order
    phase,       \* "import" | "serving" | "failed" : module import of serializers.py
    viewset,     \* the ViewSet class built by model_view_set_factory (or NoViewSet)
    store,       \* the rows of the resource's model table (model.objects)
    request,     \* the request being answered (or NoRequest)
    response,    \* the Response returned, or the exception raised (or NoResponse)
    steps,       \* what the handler did for the request, in order
    related      \* the rows of the related tables: [user |-> ..., tag |-> ...]

vars ==
    <<ACTIONS_, declared, phase, viewset, store, request, response, steps, related>>

-----------------------------------------------------------------------------
(* Characters and Python's str methods                                     *)

UpperChars == <<"A","B","C","D","E","F","G","H","I","J","K","L","M",
                "N","O","P","Q","R","S","T","U","V","W","X","Y","Z">>

LowerChars == <<"a","b","c","d","e","f","g","h","i","j","k","l","m",
                "n","o","p","q","r","s","t","u","v","w","x","y","z">>

DigitChars == {"0","1","2","3","4","5","6","7","8","9"}

Range(s) == {s[i] : i \in DOMAIN s}

IsUpper(c) == c \in Range(UpperChars)

IsLowerChar(c) == c \in Range(LowerChars)

\* str.lower() on one character
LowerChar(c) ==
    IF IsUpper(c)
    THEN LowerChars[CHOOSE i \in DOMAIN UpperChars : UpperChars[i] = c]
    ELSE c

\* str.lower()
Lower(s) == [i \in DOMAIN s |-> LowerChar(s[i])]

\* str.islower(): at least one cased character and no uppercase one
IsLower(s) ==
    /\ \E i \in DOMAIN s : IsLowerChar(s[i])
    /\ \A i \in DOMAIN s : ~IsUpper(s[i])

\* str.startswith(p)
StartsWith(s, p) == Len(s) >= Len(p) /\ SubSeq(s, 1, Len(p)) = p

\* s[n:]
DropFirst(s, n) == IF Len(s) <= n THEN <<>> ELSE SubSeq(s, n + 1, Len(s))

RECURSIVE LStrip(_)
LStrip(s) == IF s # <<>> /\ Head(s) = " " THEN LStrip(Tail(s)) ELSE s

RECURSIVE RStrip(_)
RStrip(s) ==
    IF s # <<>> /\ s[Len(s)] = " " THEN RStrip(SubSeq(s, 1, Len(s) - 1)) ELSE s

\* str.strip()
Strip(s) == RStrip(LStrip(s))

\* str.split(sep) with an explicit one-character separator: the pieces between
\* separators, empty pieces included (''.split(',') is ['']).
RECURSIVE SplitFrom(_, _, _)
SplitFrom(s, sep, cur) ==
    IF s = <<>> THEN <<cur>>
    ELSE IF Head(s) = sep THEN <<cur>> \o SplitFrom(Tail(s), sep, <<>>)
    ELSE SplitFrom(Tail(s), sep, Append(cur, Head(s)))

Split(s, sep) == SplitFrom(s, sep, <<>>)

\* [f(x) for x in s]
StripAll(s) == [i \in DOMAIN s |-> Strip(s[i])]

\* str.lower() of the needle contained in str.lower() of the text (icontains)
IContains(text, needle) ==
    LET t == Lower(text)
        n == Lower(needle)
    IN \E i \in 0..(Len(t) - Len(n)) : SubSeq(t, i + 1, i + Len(n)) = n

-----------------------------------------------------------------------------
(* to_snake_case and the registry (ActionMetaclass)                        *)

\* re.sub(r'(?<!^)(?=[A-Z0-9])', '_', name): an underscore before every
\* uppercase letter or digit that is not the first character
RECURSIVE InsertUnderscores(_, _)
InsertUnderscores(name, i) ==
    IF i > Len(name) THEN <<>>
    ELSE (IF i > 1 /\ (IsUpper(name[i]) \/ name[i] \in DigitChars)
          THEN <<"_", name[i]>> ELSE <<name[i]>>)
         \o InsertUnderscores(name, i + 1)

to_snake_case(name) ==
    IF IsLower(name) THEN name ELSE Lower(InsertUnderscores(name, 1))

\* d[k] = v
DictSet(d, k, v) == [x \in (DOMAIN d) \cup {k} |-> IF x = k THEN v ELSE d[x]]

\* a faulty registration that keeps an existing entry (dict.setdefault)
DictSetDefault(d, k, v) == IF k \in DOMAIN d THEN d ELSE DictSet(d, k, v)

\* ActionMetaclass.__new__: ACTIONS[name] = cls; ACTIONS[to_snake_case(name)] = cls
RegisterFirstWins(acts, name, cls) ==
    DictSetDefault(DictSetDefault(acts, name, cls), to_snake_case(name), cls)

Register(acts, name, cls) ==
    DictSet(DictSet(acts, name, cls), to_snake_case(name), cls)

EmptyDict == [x \in {} |-> 0]

\* Class names used to exercise the registry: several share a snake-case alias.
ClassNames ==
    { <<"a","B">>, <<"a","_","b">>, <<"A","B">>, <<"a","b">>,
      <<"A","b">>, <<"A","1">>, <<"a","_","1">>, <<"a","1">> }

MaxDecl == 3

-----------------------------------------------------------------------------
(* Values used where a variable holds nothing yet                          *)

NoViewSet == [built |-> FALSE]

NoRequest == [op |-> "none"]

NoResponse == [kind |-> "none"]

-----------------------------------------------------------------------------
(* Registry specification: class declarations at import time               *)

InitRegistry ==
    /\ ACTIONS_ = EmptyDict
    /\ declared = <<>>
    /\ phase = "import"
    /\ viewset = NoViewSet
    /\ store = <<>>
    /\ request = NoRequest
    /\ response = NoResponse
    /\ steps = <<>>
    /\ related = [user |-> <<>>, tag |-> <<>>]

\* class <name>(Action): ... -- the metaclass registers the new class
DeclareAction(name) ==
    /\ phase = "import"
    /\ Len(declared) < MaxDecl
    /\ declared' = Append(declared, name)
    /\ ACTIONS_' = Register(ACTIONS_, name, Len(declared) + 1)
    /\ UNCHANGED <<phase, viewset, store, request, response, steps, related>>

NextRegistry == \E name \in ClassNames : DeclareAction(name)

SpecRegistry == InitRegistry /\ [][NextRegistry]_vars

\* The keys a class name is registered under
KeysOf(name) == {name, to_snake_case(name)}

\* The serial of the class most recently declared under key k (0 if none)
LastDeclaredUnder(k) ==
    LET hits == {i \in DOMAIN declared : k \in KeysOf(declared[i])}
    IN IF hits = {} THEN 0 ELSE CHOOSE i \in hits : \A j \in hits : j <= i

\* C8: after any sequence of registrations, a key of the registry (a declared
\* name or its snake-case alias) maps to the class most recently declared
\* under that key; an earlier class under the same key is no longer reachable
\* by it, every declaration succeeds, and no other key is present.
C8_LastRegistrationWins ==
    /\ phase = "import"
    /\ DOMAIN ACTIONS_ = UNION {KeysOf(declared[i]) : i \in DOMAIN declared}
    /\ \A k \in DOMAIN ACTIONS_ : ACTIONS_[k] = LastDeclaredUnder(k)

\* Two classes with different names and the same derived key: the later one owns it
C8_Witness ==
    /\ Len(declared) >= 2
    /\ declared[1] # declared[2]
    /\ to_snake_case(declared[1]) = to_snake_case(declared[2])
    /\ ACTIONS_[to_snake_case(declared[1])] = 2
    /\ ACTIONS_[declared[1]] = 1

-----------------------------------------------------------------------------
(* Optional values (Python's None) and dict helpers                        *)

None == <<>>

Some(v) == <<v>>

\* Python truthiness of an optional string: None and '' are falsy
Truthy(opt) == opt # None /\ opt[1] # <<>>

\* {**a, **b} / a | b : the right operand wins on a shared key
DictUnion(a, b) ==
    [k \in (DOMAIN a) \cup (DOMAIN b) |-> IF k \in DOMAIN b THEN b[k] ELSE a[k]]

-----------------------------------------------------------------------------
(* The Action classes serializers.py declares, in declaration order        *)

N_Action == <<"A","c","t","i","o","n">>

N_RealizarSoma == <<"R","e","a","l","i","z","a","r","S","o","m","a">>

N_RealizarSubtracao ==
    <<"R","e","a","l","i","z","a","r","S","u","b","t","r","a","c","a","o">>

N_ExibirAlertas == <<"E","x","i","b","i","r","A","l","e","r","t","a","s">>

N_ExibirCartoes == <<"E","x","i","b","i","r","C","a","r","t","o","e","s">>

SourceClasses ==
    <<N_Action, N_RealizarSoma, N_RealizarSubtracao, N_ExibirAlertas, N_ExibirCartoes>>

\* ACTIONS after the class statements of the module have run
RECURSIVE RegisterAll(_, _)
RegisterAll(names, n) ==
    IF n = 0 THEN EmptyDict
    ELSE Register(RegisterAll(names, n - 1), names[n], n)

SourceRegistry == RegisterAll(SourceClasses, Len(SourceClasses))

\* Action.has_permission of class cls: no declared class overrides it
has_permission(cls) == FALSE

\* The classes that define submit (the base class Action does not)
HasSubmit(cls) == declared[cls] # N_Action

\* The declared input fields of class cls, in declaration order
ClassFields(cls) ==
    IF declared[cls] \in {N_RealizarSoma, N_RealizarSubtracao}
    THEN << [name |-> <<"u">>, type |-> "pk"],
            [name |-> <<"a">>, type |-> "int"],
            [name |-> <<"b">>, type |-> "int"] >>
    ELSE <<>>

-----------------------------------------------------------------------------
(* The entity type the resource exposes (apps.get_model) and its rows      *)

N_id == <<"i","d">>

N_is_active == <<"i","s","_","a","c","t","i","v","e">>

N_get_ == <<"g","e","t","_">>

\* The model's fields in their natural order; o and k are foreign keys
ModelFields == << N_id, <<"a">>, <<"b">>, N_is_active, <<"o">>, <<"k">> >>

ModelRelations == { <<"o">>, <<"k">> }

\* Methods of the model class: zero-argument callables
ModelMethods == { <<"m">>, <<"g","e","t","_","t">> }

\* hasattr(model_class, name)
HasAttr(name) == name \in Range(ModelFields) \cup ModelMethods

\* The names apps.get_model resolves
KnownModels == {"core.pessoa"}

\* The tables a relation points at: o -> user (has CharFields), k -> tag (has none)
RelatedModel(field) == IF field = <<"o">> THEN "user" ELSE "tag"

Row(id, active) ==
    [id |-> id, a |-> id + 1, b |-> 3, is_active |-> active, o |-> id, k |-> 10 + id]

\* Tables with an active and an inactive row in either order, or one inactive row
StoreOptions ==
    { <<Row(1, x), Row(2, ~x)>> : x \in BOOLEAN } \cup { <<Row(1, FALSE)>> }

\* The ids a detail path may carry: 1 names a row of every table, 9 of none
PathPks == {1, 9}

-----------------------------------------------------------------------------
(* model_view_set_factory: the ViewSet class built from one api.yml entry  *)

\* str_to_list
str_to_list(s) == IF s # <<>> THEN StripAll(Split(s, ",")) ELSE <<>>

\* [name for name in names if name.startswith('get_')]
GetNames(names) == SelectSeq(names, LAMBDA n : StartsWith(n, N_get_))

\* [name[4:] if name.startswith('get_') else name for name in names]
StripGet(names) ==
    [i \in DOMAIN names |->
        IF StartsWith(names[i], N_get_) THEN DropFirst(names[i], 4) ELSE names[i]]

\* The class attributes of ViewSet (lines 329-343) for api.yml entry e
model_view_set_factory(e) ==
    [ built              |-> TRUE,
      prefix             |-> e.prefix,
      model              |-> e.model,
      object_fieldsets   |-> e.fieldsets,
      view_display       |-> StripGet(str_to_list(e.view_fields)),
      list_display       |-> StripGet(str_to_list(e.list_fields)),
      view_actions       |-> DOMAIN e.view_actions,
      list_actions       |-> DOMAIN e.list_actions,
      action_serializers |-> DictUnion(e.view_actions, e.list_actions),
      view_methods       |-> GetNames(str_to_list(e.view_fields)
                                      \o str_to_list(e.list_fields)) ]

\* The routes registered for the generated action functions (lines 350-357):
\* url key -> detail flag; every one accepts POST only
ActionRoutes(vs) ==
    [k \in DOMAIN vs.action_serializers |-> k \in vs.view_actions]

\* The specification loading loop (lines 407-428) for a document of one entry:
\* apps.get_model raises for an unknown model name and the import fails; the
\* prefix and the action identifiers are stored as given.
LoadSpecification(e) ==
    /\ phase = "import"
    /\ IF e.model \in KnownModels
       THEN /\ viewset' = model_view_set_factory(e)
            /\ phase' = "serving"
       ELSE /\ viewset' = viewset
            /\ phase' = "failed"
    /\ UNCHANGED <<ACTIONS_, declared, store, request, response, steps, related>>

-----------------------------------------------------------------------------
(* Serializer classes and their fields                                     *)

\* ModelViewSet.get_list_serializer_class: Meta.fields = self.list_display
get_list_serializer_class(vs) ==
    [kind |-> "model", origin |-> "list", dynamic |-> TRUE,
     all |-> FALSE, names |-> vs.list_display, cls |-> 0]

\* ModelViewSet.get_retrieve_serializer_class:
\* Meta.fields = self.view_display if self.view_display else '__all__'
get_retrieve_serializer_class(vs) ==
    [kind |-> "model", origin |-> "retrieve", dynamic |-> TRUE,
     all |-> vs.view_display = <<>>, names |-> vs.view_display, cls |-> 0]

\* get_create/update/partial_update_serializer_class: a plain ModelSerializer
\* with Meta.exclude = ()
WriteSerializerClass(origin) ==
    [kind |-> "model", origin |-> origin, dynamic |-> FALSE,
     all |-> TRUE, names |-> <<>>, cls |-> 0]

\* ModelViewSet.get_serializer_class for self.action = op. A bound action key
\* whose identifier is not in ACTIONS raises KeyError.
get_serializer_class(vs, op) ==
    IF op = "list" THEN get_list_serializer_class(vs)
    ELSE IF op = "retrieve" THEN get_retrieve_serializer_class(vs)
    ELSE IF op = "update" THEN WriteSerializerClass("update")
    ELSE IF op = "partial_update" THEN WriteSerializerClass("partial_update")
    ELSE IF op \in DOMAIN vs.action_serializers
    THEN IF vs.action_serializers[op] \in DOMAIN ACTIONS_
         THEN [kind |-> "action", origin |-> "action", dynamic |-> FALSE,
               all |-> FALSE, names |-> <<>>,
               cls |-> ACTIONS_[vs.action_serializers[op]]]
         ELSE [kind |-> "KeyError", origin |-> "action", dynamic |-> FALSE,
               all |-> FALSE, names |-> <<>>, cls |-> 0]
    ELSE WriteSerializerClass("create")

\* A field of a serializer
Field(name, kind, method_name, attrs, cls) ==
    [name |-> name, kind |-> kind, method_name |-> method_name,
     attrs |-> attrs, cls |-> cls]

\* DynamicFieldsModelSerializer.build_unknown_field: method, then fieldset,
\* then bound action, then registered action, else ImproperlyConfigured
build_unknown_field(vs, field_name) ==
    LET method_name == N_get_ \o field_name
    IN IF method_name \in Range(vs.view_methods)
       THEN Field(field_name, "method", method_name, <<>>, 0)
       ELSE IF field_name \in DOMAIN vs.object_fieldsets
       THEN Field(field_name, "fieldset", <<>>,
                  StripAll(Split(vs.object_fieldsets[field_name], ",")), 0)
       ELSE IF field_name \in DOMAIN vs.action_serializers
       THEN IF vs.action_serializers[field_name] \in DOMAIN ACTIONS_
            THEN Field(field_name, "action", <<>>, <<>>,
                       ACTIONS_[vs.action_serializers[field_name]])
            ELSE Field(field_name, "KeyError", <<>>, <<>>, 0)
       ELSE IF field_name \in DOMAIN ACTIONS_
       THEN Field(field_name, "action", <<>>, <<>>, ACTIONS_[field_name])
       ELSE Field(field_name, "ImproperlyConfigured", <<>>, <<>>, 0)

\* ModelSerializer.build_field: a model field, a relation, an attribute of the
\* model class, and only then build_unknown_field (overridden by the dynamic
\* serializer, raising in the plain one)
build_field(vs, sc, field_name) ==
    IF field_name \in Range(ModelFields) \ ModelRelations
    THEN Field(field_name, "plain", <<>>, <<>>, 0)
    ELSE IF field_name \in ModelRelations
    THEN Field(field_name, "relation", <<>>, <<>>, 0)
    ELSE IF HasAttr(field_name)
    THEN Field(field_name, "property", <<>>, <<>>, 0)
    ELSE IF sc.dynamic THEN build_unknown_field(vs, field_name)
    ELSE Field(field_name, "ImproperlyConfigured", <<>>, <<>>, 0)

\* ModelSerializer.get_fields: Meta.fields as listed, or every model field for
\* '__all__' / exclude = ()
get_fields(vs, sc) ==
    LET names == IF sc.all THEN ModelFields ELSE sc.names
    IN [i \in DOMAIN names |-> build_field(vs, sc, names[i])]

\* The first field that could not be built, if any
FieldsError(fields) ==
    LET bad == {i \in DOMAIN fields :
                   fields[i].kind \in {"KeyError", "ImproperlyConfigured"}}
    IN IF bad = {} THEN "ok"
       ELSE fields[CHOOSE i \in bad : \A j \in bad : i <= j].kind

\* set(name.strip() for name in names.split(','))
AllowedNames(names) == Range(StripAll(Split(names, ",")))

\* a filter that forgets name.strip()
remove_unrequested_fields_nostrip(fields, only) ==
    IF Truthy(only)
    THEN SelectSeq(fields, LAMBDA f : f.name \in Range(Split(only[1], ",")))
    ELSE fields

\* DynamicFieldsModelSerializer.remove_unrequested_fields: with a non-empty
\* 'only' value, pop every field whose name is not in it
remove_unrequested_fields(fields, only) ==
    IF Truthy(only)
    THEN SelectSeq(fields, LAMBDA f : f.name \in AllowedNames(only[1]))
    ELSE fields

\* The fields of an instance of serializer class sc for a request with the
\* given 'only' query value
SerializerFields(vs, sc, only) ==
    IF sc.dynamic THEN remove_unrequested_fields(get_fields(vs, sc), only)
    ELSE get_fields(vs, sc)

-----------------------------------------------------------------------------
(* Rendering a row                                                         *)

\* str(n) for a natural number
RECURSIVE DecStr(_)
DecStr(n) ==
    LET d == <<"0","1","2","3","4","5","6","7","8","9">>[(n % 10) + 1]
    IN IF n < 10 THEN <<d>> ELSE Append(DecStr(n \div 10), d)

\* The row of a related table with the given id (the foreign keys are valid)
RelatedRow(model, id) ==
    LET rows == related[model]
    IN rows[CHOOSE i \in DOMAIN rows : rows[i].id = id]

\* str(obj) of a related row: a user prints its username, a tag its id
StrOf(model, row) == IF model = "user" THEN row.username ELSE DecStr(row.id)

\* getattr(row, attr), called when it is a method
Resolve(row, attr) ==
    CASE attr = N_id -> row.id
      [] attr = <<"a">> -> row.a
      [] attr = <<"b">> -> row.b
      [] attr = N_is_active -> row.is_active
      [] attr = <<"o">> -> row.o
      [] attr = <<"k">> -> row.k
      [] attr = <<"m">> -> row.a + row.b
      [] attr = <<"g","e","t","_","t">> -> 2 * row.a

\* The output mapping of cls.submit() for validated data d, as (key, value) pairs
submit(cls, d) ==
    CASE declared[cls] = N_RealizarSoma ->
            << [key |-> <<"s","o","m","a">>, v |-> d[<<"a">>] + d[<<"b">>]] >>
      [] declared[cls] = N_RealizarSubtracao ->
            << [key |-> <<"s","u","b","t","r","a","c","a","o">>,
                v |-> d[<<"a">>] - d[<<"b">>]] >>
      [] declared[cls] = N_ExibirAlertas -> << [key |-> <<"a">>, v |-> 1] >>
      [] declared[cls] = N_ExibirCartoes -> << [key |-> <<"b">>, v |-> 2] >>

\* Field.to_representation for one field of a row. AttributeError stands for a
\* getattr of a name the model class does not have.
FieldValue(f, row, dynamic) ==
    CASE f.kind = "plain" -> [t |-> "raw", v |-> Resolve(row, f.name)]
      [] f.kind = "property" -> [t |-> "raw", v |-> Resolve(row, f.name)]
      [] f.kind = "relation" ->
            IF dynamic
            THEN [t |-> "ref", id |-> Resolve(row, f.name),
                  text |-> StrOf(RelatedModel(f.name),
                                 RelatedRow(RelatedModel(f.name), Resolve(row, f.name)))]
            ELSE [t |-> "raw", v |-> Resolve(row, f.name)]
      [] f.kind = "method" ->
            IF f.method_name \in ModelMethods
            THEN [t |-> "value", v |-> Resolve(row, f.method_name)]
            ELSE [t |-> "AttributeError"]
      [] f.kind = "fieldset" ->
            IF \A i \in DOMAIN f.attrs : HasAttr(f.attrs[i])
            THEN [t |-> "dict",
                  items |-> [i \in DOMAIN f.attrs |->
                                [key |-> f.attrs[i], v |-> Resolve(row, f.attrs[i])]]]
            ELSE [t |-> "AttributeError"]
      [] f.kind = "action" ->
            IF ClassFields(f.cls) # <<>> THEN [t |-> "null"]
            ELSE IF HasSubmit(f.cls)
            THEN [t |-> "dict", items |-> submit(f.cls, EmptyDict)]
            ELSE [t |-> "AttributeError"]

\* Serializer.to_representation: one (key, value) pair per field, in field order
to_representation(fields, row, dynamic) ==
    [i \in DOMAIN fields |->
        [key |-> fields[i].name, val |-> FieldValue(fields[i], row, dynamic)]]

Keys(rep) == [i \in DOMAIN rep |-> rep[i].key]

\* serializer.data for the rows given: the representations, or the exception
\* raised while building the fields or rendering a value
SerializerData(vs, sc, only, rows) ==
    LET fields == SerializerFields(vs, sc, only)
        reps == [i \in DOMAIN rows |-> to_representation(fields, rows[i], sc.dynamic)]
    IN IF sc.kind = "KeyError" THEN [kind |-> "exception", exc |-> "KeyError"]
       ELSE IF FieldsError(get_fields(vs, sc)) # "ok"
       THEN [kind |-> "exception", exc |-> FieldsError(get_fields(vs, sc))]
       ELSE IF \E i \in DOMAIN reps : \E j \in DOMAIN reps[i] :
                   reps[i][j].val.t = "AttributeError"
       THEN [kind |-> "exception", exc |-> "AttributeError"]
       ELSE [kind |-> "response", status |-> 200,
             body |-> [type |-> "records", items |-> reps]]

-----------------------------------------------------------------------------
(* The choice browser: generic_search and as_choices                       *)

\* The CharField names of a related model: a user has one, a tag has none
CharFields(model) == IF model = "user" THEN << "username" >> ELSE <<>>

\* [names of the CharFields] or ['id']
orm_lookups(model) == IF CharFields(model) # <<>> THEN CharFields(model) ELSE << "id" >>

\* The column a lookup reads, as text (an id is matched on its decimal form)
LookupText(row, lookup) == IF lookup = "id" THEN DecStr(row.id) ELSE row.username

\* term.split(' ') if term else []
search_terms(term) == IF Truthy(term) THEN Split(term[1], " ") ELSE <<>>

\* a search that ORs the per-token conditions instead of ANDing them
MatchesAnyTerm(model, row, terms) ==
    \E i \in DOMAIN terms :
        \E j \in DOMAIN orm_lookups(model) :
            IContains(LookupText(row, orm_lookups(model)[j]), terms[i])

\* reduce(and_, [reduce(or_, [Q(lookup__icontains=t) for lookup in lookups])
\*               for t in terms]) evaluated on one row
Matches(model, row, terms) ==
    \A i \in DOMAIN terms :
        \E j \in DOMAIN orm_lookups(model) :
            IContains(LookupText(row, orm_lookups(model)[j]), terms[i])

\* generic_search(qs, term): qs is [model, rows]
generic_search(qs, term) ==
    IF search_terms(term) # <<>>
    THEN [model |-> qs.model,
          rows |-> SelectSeq(qs.rows,
                             LAMBDA r : Matches(qs.model, r, search_terms(term)))]
    ELSE qs

\* The default of as_choices' limit parameter
ChoicesLimit == 20

\* as_choices(qs): [{'id': obj.pk, 'text': str(obj)} for obj in qs[0:limit]]
as_choices(qs) ==
    LET n == IF Len(qs.rows) < ChoicesLimit THEN Len(qs.rows) ELSE ChoicesLimit
    IN [i \in 1..n |-> [id |-> qs.rows[i].id, text |-> StrOf(qs.model, qs.rows[i])]]

\* Response(as_choices(generic_search(qs, term)))
ChoicesResponse(qs, term) ==
    [kind |-> "response", status |-> 200,
     body |-> [type |-> "choices", items |-> as_choices(generic_search(qs, term))]]

\* <related model>.objects.all()
AllRows(model) == [model |-> model, rows |-> related[model]]

-----------------------------------------------------------------------------
(* Requests and the built-in endpoints                                     *)

\* A request: the operation routed to, the action url key and path id (if
\* any), the HTTP method, the query parameters read by the code, the payload
Req(op, key, pk, method, only, choices_field, choices_search, data) ==
    [op |-> op, key |-> key, pk |-> pk, method |-> method, only |-> only,
     choices_field |-> choices_field, choices_search |-> choices_search,
     data |-> data]

M_GET == <<"G","E","T">>

M_POST == <<"P","O","S","T">>

Exception(exc) == [kind |-> "exception", exc |-> exc]

\* getattr(self.model, choices).field.related_model.objects.all(), restricted
\* to the ids the listed rows refer to (values_list(choices, flat=True))
ReferencedRows(field, rows) ==
    [model |-> RelatedModel(field),
     rows |-> SelectSeq(related[RelatedModel(field)],
                        LAMBDA r : \E i \in DOMAIN rows : Resolve(rows[i], field) = r.id)]

\* The response is sent and the per-request state is discarded; the worker
\* takes the next request
Discard ==
    /\ request # NoRequest
    /\ request' = NoRequest
    /\ response' = NoResponse
    /\ steps' = <<>>
    /\ UNCHANGED <<ACTIONS_, declared, phase, viewset, store, related>>

\* ModelViewSet.list
List(q) ==
    /\ phase = "serving"
    /\ request = NoRequest
    /\ q.op = "list"
    /\ request' = q
    /\ response' =
         IF Truthy(q.choices_field)
         THEN IF q.choices_field[1] \in ModelRelations
              THEN ChoicesResponse(ReferencedRows(q.choices_field[1], store),
                                   q.choices_search)
              ELSE Exception("AttributeError")
         ELSE SerializerData(viewset, get_serializer_class(viewset, "list"),
                             q.only, store)
    /\ steps' = <<>>
    /\ UNCHANGED <<ACTIONS_, declared, phase, viewset, store, related>>

\* ModelViewSet.retrieve: get_object answers 404 for an id no row has
Retrieve(q) ==
    /\ phase = "serving"
    /\ request = NoRequest
    /\ q.op = "retrieve"
    /\ request' = q
    /\ response' =
         LET found == SelectSeq(store, LAMBDA r : r.id = q.pk)
         IN IF found = <<>>
            THEN [kind |-> "response", status |-> 404, body |-> [type |-> "detail"]]
            ELSE SerializerData(viewset, get_serializer_class(viewset, "retrieve"),
                                q.only, found)
    /\ steps' = <<>>
    /\ UNCHANGED <<ACTIONS_, declared, phase, viewset, store, related>>

\* ModelViewSet.inativos: self.action is 'inativos' in get_serializer_class
inativos(q) ==
    /\ phase = "serving"
    /\ request = NoRequest
    /\ q.op = "inativos"
    /\ request' = q
    /\ response' =
         SerializerData(viewset, get_serializer_class(viewset, "inativos"), q.only,
                        SelectSeq(store, LAMBDA r : r.is_active = FALSE))
    /\ steps' = <<>>
    /\ UNCHANGED <<ACTIONS_, declared, phase, viewset, store, related>>

-----------------------------------------------------------------------------
(* The generated action endpoints (create_action_func)                     *)

\* A payload value: an integer, or something that is not one
IntValue(n) == [int |-> TRUE, n |-> n]

NotAnInt == [int |-> FALSE, n |-> 0]

\* Field.run_validation for one declared field: the error code, or "ok"
FieldError(f, data) ==
    IF f.name \notin DOMAIN data THEN "required"
    ELSE IF f.type = "int"
    THEN IF data[f.name].int THEN "ok" ELSE "invalid"
    ELSE IF ~data[f.name].int THEN "incorrect_type"
    ELSE IF \E i \in DOMAIN related.user : related.user[i].id = data[f.name].n
    THEN "ok" ELSE "does_not_exist"

\* serializer.errors after is_valid(): failing field -> list of messages
ValidationErrors(cls, data) ==
    LET fields == ClassFields(cls)
        failing == {i \in DOMAIN fields : FieldError(fields[i], data) # "ok"}
    IN [n \in {fields[i].name : i \in failing} |->
          << FieldError(fields[CHOOSE i \in failing : fields[i].name = n], data) >>]

\* serializer.data after a successful is_valid(): the declared fields' values
ValidatedData(cls, data) ==
    LET fields == ClassFields(cls)
    IN [n \in {fields[i].name : i \in DOMAIN fields} |-> data[n].n]

HTTP_200_OK == 200

\* an error response with a client-error status
ErrorsResponse400(errors) ==
    [kind |-> "response", status |-> 400,
     body |-> [type |-> "errors", errors |-> errors]]

\* Response(dict(errors=serializer.errors), status=status.HTTP_200_OK)
ErrorsResponse(errors) ==
    [kind |-> "response", status |-> HTTP_200_OK,
     body |-> [type |-> "errors", errors |-> errors]]

\* Response(serializer.submit(), status=status.HTTP_200_OK)
OutputResponse(output) ==
    [kind |-> "response", status |-> HTTP_200_OK,
     body |-> [type |-> "output", data |-> output]]

\* The body of func for a resolved class, after the source was attached
\* (lines 365-375): the picker, the read, or validation and submit
FuncBody(cls, q, done) ==
    IF Truthy(q.choices_field)
    THEN LET hit == SelectSeq(ClassFields(cls),
                              LAMBDA f : f.name = q.choices_field[1])
         IN [steps |-> done,
             response |->
                IF hit = <<>> THEN Exception("KeyError")
                ELSE IF hit[1].type # "pk" THEN Exception("AttributeError")
                ELSE ChoicesResponse(AllRows("user"), q.choices_search)]
    ELSE IF Lower(q.method) = <<"g","e","t">>
    THEN [steps |-> done,
          response |-> [kind |-> "response", status |-> HTTP_200_OK,
                        body |-> [type |-> "initial_data", data |-> q.data]]]
    ELSE IF ValidationErrors(cls, q.data) = EmptyDict
    THEN IF HasSubmit(cls)
         THEN [steps |-> done \o <<"validate", "submit">>,
               response |-> OutputResponse(submit(cls, ValidatedData(cls, q.data)))]
         ELSE [steps |-> done \o <<"validate">>,
               response |-> Exception("AttributeError")]
    ELSE [steps |-> done \o <<"validate">>,
          response |-> ErrorsResponse(ValidationErrors(cls, q.data))]

\* func of create_action_func(model, func_name, serializer_name): the class is
\* looked up and constructed with the payload, the source is attached (the
\* record is fetched when the route carries a pk), and only then the query and
\* the method are looked at
FuncResult(serializer_name, q) ==
    IF serializer_name \notin DOMAIN ACTIONS_
    THEN [steps |-> <<>>, response |-> Exception("KeyError")]
    ELSE IF q.pk # 0 /\ ~\E i \in DOMAIN store : store[i].id = q.pk
    THEN [steps |-> <<"construct", "fetch">>, response |-> Exception("DoesNotExist")]
    ELSE FuncBody(ACTIONS_[serializer_name], q,
                  IF q.pk # 0 THEN <<"construct", "fetch", "attach">>
                  ELSE <<"construct", "attach">>)

\* A request routed to the action function of url key q.key: the route exists,
\* accepts POST only, and carries a pk exactly when the key is a view action
func(q) ==
    /\ phase = "serving"
    /\ request = NoRequest
    /\ q.op = "action"
    /\ q.key \in DOMAIN ActionRoutes(viewset)
    /\ q.method = M_POST
    /\ (q.pk # 0) = ActionRoutes(viewset)[q.key]
    /\ request' = q
    /\ response' = FuncResult(viewset.action_serializers[q.key], q).response
    /\ steps' = FuncResult(viewset.action_serializers[q.key], q).steps
    /\ UNCHANGED <<ACTIONS_, declared, phase, viewset, store, related>>

-----------------------------------------------------------------------------
(* Rendering specification: one resource, list / retrieve / inativos       *)

N_pessoas == <<"p","e","s","s","o","a","s">>

\* 'fields' values of api.yml: none, plain names, a method name, a fieldset
\* group beside one of its members, a group named like an attribute, a name
\* nothing provides
FieldOptions ==
    { <<>>,
      <<"a",","," ","i","d">>,
      <<"g",",","a">>,
      <<"t",","," ","b",",","g","e","t","_","t",",","g">>,
      <<"b",",","m",",","o">>,
      <<"a",",","z">> }

\* 'fieldsets' values of api.yml: none, or the group g and a group named b
FieldsetOptions ==
    { EmptyDict,
      [k \in {<<"g">>, <<"b">>} |-> <<"a",","," ","m">>] }

\* 'fields' values used for the detail view
ViewFieldOptions ==
    { <<>>, <<"g",",","a">>, <<"b",",","m",",","o">> }

RenderEntries ==
    { [prefix |-> Some(N_pessoas), model |-> "core.pessoa", fieldsets |-> fs,
       list_fields |-> lf, view_fields |-> vf,
       list_actions |-> EmptyDict, view_actions |-> EmptyDict] :
         fs \in FieldsetOptions, lf \in FieldOptions, vf \in ViewFieldOptions }

\* The characters 'only' values are made of
OnlyChars == {"a", "g", ",", " "}

MaxOnlyLen == 3

RECURSIVE SeqsUpTo(_, _)
SeqsUpTo(S, n) ==
    IF n = 0 THEN {<<>>}
    ELSE LET shorter == SeqsUpTo(S, n - 1)
         IN shorter \cup {Append(s, c) : s \in {x \in shorter : Len(x) = n - 1}, c \in S}

\* No 'only' parameter, or one with any value up to MaxOnlyLen characters
OnlyValues == {None} \cup {Some(v) : v \in SeqsUpTo(OnlyChars, MaxOnlyLen)}

RenderRequests ==
    { Req(op, <<>>, 0, M_GET, only, None, None, EmptyDict) :
        op \in {"list", "inativos"}, only \in OnlyValues } \cup
    { Req("retrieve", <<>>, pk, M_GET, only, None, None, EmptyDict) :
        pk \in PathPks, only \in OnlyValues }

\* The tag table: ids 1 to 12 (a tag has no text column)
Tags == [i \in 1..12 |-> [id |-> i, username |-> <<>>]]

SmallRelated ==
    [user |-> << [id |-> 1, username |-> <<"J","o">>],
                 [id |-> 2, username |-> <<"a","n","a">>] >>,
     tag  |-> Tags]

InitRender ==
    /\ ACTIONS_ = SourceRegistry
    /\ declared = SourceClasses
    /\ phase = "import"
    /\ viewset = NoViewSet
    /\ store \in StoreOptions
    /\ related = SmallRelated
    /\ request = NoRequest
    /\ response = NoResponse
    /\ steps = <<>>

NextRender ==
    \/ \E e \in RenderEntries : LoadSpecification(e)
    \/ \E q \in RenderRequests : List(q)
    \/ \E q \in RenderRequests : Retrieve(q)
    \/ \E q \in RenderRequests : inativos(q)
    \/ Discard

SpecRender == InitRender /\ [][NextRender]_vars

-----------------------------------------------------------------------------
(* Properties of rendering                                                 *)

\* The field names of the plan of a view: the declared names (with get_
\* stripped), or every model field where the code falls back to '__all__'
PlanNames(op) ==
    IF op = "list" THEN viewset.list_display
    ELSE IF viewset.view_display = <<>> THEN ModelFields
    ELSE viewset.view_display

\* The names the entry declares for a view
DeclaredNames(op) ==
    IF op = "list" THEN viewset.list_display ELSE viewset.view_display

\* The requested names of an 'only' value: its comma-separated items, stripped
RequestedNames(value) == AllowedNames(value)

\* plan names that are requested, in plan order
PlanRequested(op, value) ==
    SelectSeq(PlanNames(op), LAMBDA n : n \in RequestedNames(value))

RenderedOk ==
    /\ request.op \in {"list", "retrieve"}
    /\ response.kind = "response"
    /\ response.status = 200

\* The plan of the request's view can be built and rendered without the filter
PlanRenders ==
    SerializerData(viewset, get_serializer_class(viewset, request.op), None,
                   store).kind = "response"

\* C1 (as amended): for list and detail, with a non-empty 'only' value every
\* rendered record has exactly the plan names that are requested, in plan
\* order; requested names outside the plan are ignored; with no 'only'
\* parameter or an empty one every plan field is kept; and the filter never
\* turns a renderable plan into an error.
C1_OnlyFilter ==
    /\ RenderedOk =>
         \A i \in DOMAIN response.body.items :
            Keys(response.body.items[i]) =
               IF request.only # None /\ request.only[1] # <<>>
               THEN PlanRequested(request.op, request.only[1])
               ELSE PlanNames(request.op)
    /\ (request.op \in {"list", "retrieve"} /\ response.kind = "exception")
         => ~PlanRenders

\* A request naming a then g against the plan g,a: the record has g then a
C1_Witness ==
    /\ RenderedOk
    /\ request.only = Some(<<"a", ",", "g">>)
    /\ PlanNames(request.op) = << <<"g">>, <<"a">> >>
    /\ response.body.items # <<>>
    /\ Keys(response.body.items[1]) = << <<"g">>, <<"a">> >>

\* C1 as stated: for every value of the parameter the keys are the plan names
\* intersected with the requested names; only an absent filter keeps all.
C1_Original ==
    RenderedOk =>
       \A i \in DOMAIN response.body.items :
          Keys(response.body.items[i]) =
             IF request.only # None
             THEN PlanRequested(request.op, request.only[1])
             ELSE PlanNames(request.op)

\* The member names of every configured fieldset group
MemberNames ==
    UNION { Range(StripAll(Split(viewset.object_fieldsets[g], ","))) :
              g \in DOMAIN viewset.object_fieldsets }

\* The value a fieldset group renders to: each member resolved on the row
GroupValue(g, row) ==
    LET members == StripAll(Split(viewset.object_fieldsets[g], ","))
    IN [t |-> "dict",
        items |-> [i \in DOMAIN members |->
                      [key |-> members[i], v |-> Resolve(row, members[i])]]]

\* The rows a list or retrieve request renders
RenderedRows ==
    IF request.op = "list" THEN store
    ELSE SelectSeq(store, LAMBDA r : r.id = request.pk)

\* C5: a fieldset group in the plan renders as one nested key mapping each
\* member to its resolved value -- also when the group is named like a plain
\* attribute -- and no member name is a top-level key of the record, even when
\* it is declared in the field list or named in 'only'.
C5_FieldsetGroups ==
    ( /\ RenderedOk
      /\ \E n \in Range(DeclaredNames(request.op)) :
            n \in DOMAIN viewset.object_fieldsets )
    => \A i \in DOMAIN response.body.items :
          LET rep == response.body.items[i]
          IN /\ \A j \in DOMAIN rep :
                   rep[j].key \in DOMAIN viewset.object_fieldsets
                      => rep[j].val = GroupValue(rep[j].key, RenderedRows[i])
             /\ \A j \in DOMAIN rep : rep[j].key \notin MemberNames

\* C6: a view with no declared fields renders every attribute of the entity
\* type, in the type's natural order.
C6_DefaultPlan ==
    ( /\ RenderedOk
      /\ ~Truthy(request.only)
      /\ (request.op = "list" => viewset.list_display = <<>>)
      /\ (request.op = "retrieve" => viewset.view_display = <<>>) )
    => \A i \in DOMAIN response.body.items :
          Keys(response.body.items[i]) = ModelFields

\* The keys the list plan gives a record for the request's query
ListKeys ==
    IF Truthy(request.only) THEN PlanRequested("list", request.only[1])
    ELSE PlanNames("list")

\* C9: the representation is selected by the operation alone: list through
\* the list plan, retrieve through the detail plan, the writes through the
\* full-attribute write schema, and inativos through the list plan (the key
\* set of the list operation), returning exactly the inactive records.
C9_SerializerByOperation ==
    /\ \A op \in {"create", "update", "partial_update"} :
          phase = "serving" =>
             LET sc == get_serializer_class(viewset, op)
             IN sc.all /\ ~sc.dynamic
    /\ RenderedOk =>
          \A i \in DOMAIN response.body.items :
             Keys(response.body.items[i]) =
                IF Truthy(request.only)
                THEN PlanRequested(request.op, request.only[1])
                ELSE PlanNames(request.op)
    /\ ( /\ request.op = "inativos"
         /\ response.kind = "response"
         /\ viewset.list_display # <<>>
         /\ SerializerData(viewset, get_list_serializer_class(viewset),
                           request.only, store).kind = "response" ) =>
          /\ Len(response.body.items) =
                Len(SelectSeq(store, LAMBDA r : ~r.is_active))
          /\ \A i \in DOMAIN response.body.items :
                Keys(response.body.items[i]) = ListKeys

-----------------------------------------------------------------------------
(* Action specification: resources with action bindings                    *)

K_soma == <<"s","o","m","a">>

K_sub == <<"s","u","b">>

K_alertas == <<"a","l","e","r","t","a","s">>

K_base == <<"b","a","s","e">>

N_realizar_soma == <<"r","e","a","l","i","z","a","r","_","s","o","m","a">>

N_nope == <<"n","o","p","e">>

Binding(k, id) == [x \in {k} |-> id]

\* 'view: actions:' values: none, a snake-case alias, an identifier no class
\* is registered under, a class name
ViewActionOptions ==
    { EmptyDict, Binding(K_soma, N_realizar_soma), Binding(K_soma, N_nope),
      Binding(K_alertas, N_ExibirAlertas) }

\* 'list: actions:' values: none, a class name, the base class
ListActionOptions ==
    { EmptyDict, Binding(K_sub, N_RealizarSubtracao), Binding(K_base, N_Action) }

ActionEntries ==
    { [prefix |-> Some(N_pessoas), model |-> m, fieldsets |-> EmptyDict,
       list_fields |-> <<>>, view_fields |-> <<>>,
       list_actions |-> la, view_actions |-> va] :
         m \in {"core.pessoa", "core.nope"},
         la \in ListActionOptions, va \in ViewActionOptions }

\* Payloads: u absent, an existing user or a missing one; a and b absent, an
\* integer or not an integer
Payloads ==
    UNION { { [n \in D |-> CASE n = <<"u">> -> u [] n = <<"a">> -> a [] n = <<"b">> -> b] :
                u \in {IntValue(1), IntValue(9)},
                a \in {IntValue(2), NotAnInt},
                b \in {IntValue(3), NotAnInt} } :
            D \in SUBSET { <<"u">>, <<"a">>, <<"b">> } }

PickerFields == { None, Some(<<>>), Some(<<"u">>), Some(<<"a">>), Some(<<"z">>) }

ActionRequests ==
    { Req("action", key, pk, M_POST, None, cf, term, data) :
        key \in {K_soma, K_sub, K_alertas, K_base}, pk \in {0} \cup PathPks,
        cf \in PickerFields, term \in {None, Some(<<"J">>)}, data \in Payloads }

InitAction ==
    /\ ACTIONS_ = SourceRegistry
    /\ declared = SourceClasses
    /\ phase = "import"
    /\ viewset = NoViewSet
    /\ store \in StoreOptions
    /\ related = SmallRelated
    /\ request = NoRequest
    /\ response = NoResponse
    /\ steps = <<>>

NextAction ==
    \/ \E e \in ActionEntries : LoadSpecification(e)
    \/ \E q \in ActionRequests : func(q)
    \/ Discard

SpecAction == InitAction /\ [][NextAction]_vars

-----------------------------------------------------------------------------
(* Properties of the action endpoints                                      *)

ActionRequested == request.op = "action"

\* The identifier the request's url key is bound to
BoundIdentifier == viewset.action_serializers[request.key]

\* The request's action resolves to a registered class
BoundResolved == ActionRequested /\ BoundIdentifier \in DOMAIN ACTIONS_

BoundClass == ACTIONS_[BoundIdentifier]

\* The payload satisfies every declared input field: present, an integer, and
\* for the user reference the id of an existing user
PayloadValid(cls, data) ==
    \A i \in DOMAIN ClassFields(cls) :
       LET f == ClassFields(cls)[i]
       IN /\ f.name \in DOMAIN data
          /\ data[f.name].int
          /\ f.type = "pk" =>
                \E j \in DOMAIN related.user : related.user[j].id = data[f.name].n

Count(seq, x) == Cardinality({i \in DOMAIN seq : seq[i] = x})

\* A submission to a named action that has a submit: no picker query
Submission ==
    /\ BoundResolved
    /\ HasSubmit(BoundClass)
    /\ ~Truthy(request.choices_field)
    /\ Lower(request.method) # <<"g","e","t">>

\* The source context can be attached: a list-scope route, or an existing id
SourceAttachable ==
    request.pk = 0 \/ \E i \in DOMAIN store : store[i].id = request.pk

\* What C2 says of a submission
SubmissionOutcome ==
    IF PayloadValid(BoundClass, request.data)
    THEN /\ Count(steps, "submit") = 1
         /\ response.kind = "response"
         /\ response.status = HTTP_200_OK
         /\ response.body.type = "output"
         /\ response.body.data = submit(BoundClass, ValidatedData(BoundClass, request.data))
    ELSE /\ Count(steps, "submit") = 0
         /\ response.kind = "response"
         /\ response.status = HTTP_200_OK
         /\ response.body.type = "errors"
         /\ DOMAIN response.body.errors # {}
         /\ \A n \in DOMAIN response.body.errors :
               /\ response.body.errors[n] # <<>>
               /\ \E i \in DOMAIN ClassFields(BoundClass) :
                     ClassFields(BoundClass)[i].name = n

\* C2 (as amended): for a submission whose source context can be attached
\* (list scope, or a path id that names an existing record), a valid payload
\* runs submit exactly once and the output is the body, an invalid payload
\* never runs submit and the body is {errors: {field: [messages]}}, both with
\* status 200; when the path id names no record the fetch raises DoesNotExist
\* and neither validation nor submit runs.
C2_Submission ==
    /\ (Submission /\ SourceAttachable) => SubmissionOutcome
    /\ (Submission /\ ~SourceAttachable) =>
          /\ response = Exception("DoesNotExist")
          /\ Count(steps, "validate") = 0
          /\ Count(steps, "submit") = 0

\* {a: 2, b: 3} with an existing user to the sum action on an existing record
C2_Witness ==
    /\ Submission
    /\ request.pk = 1
    /\ declared[BoundClass] = N_RealizarSoma
    /\ response.kind = "response"
    /\ response.body.type = "output"
    /\ response.body.data = << [key |-> <<"s","o","m","a">>, v |-> 5] >>
    /\ steps = <<"construct", "fetch", "attach", "validate", "submit">>

\* C2 as stated: every submission to a named action ends in one of the two
\* outcomes.
C2_Original == Submission => SubmissionOutcome

\* C3: an action whose class does not override has_permission is denied:
\* dispatch never reaches validation or submit, and the response is neither
\* the action's output nor a validation-error body.
C3_DeniedByDefault ==
    (BoundResolved /\ ~has_permission(BoundClass)) =>
       /\ Count(steps, "validate") = 0
       /\ Count(steps, "submit") = 0
       /\ response.kind = "response" => response.body.type \notin {"output", "errors"}

\* C4: the process serves only when the entry's model reference resolves and
\* every action url key is bound to an identifier present in the registry; no
\* request is handled by a resource with an unresolved binding.
C4_FatalAtStartup ==
    /\ phase = "serving" =>
          /\ viewset.model \in KnownModels
          /\ \A k \in DOMAIN viewset.action_serializers :
                viewset.action_serializers[k] \in DOMAIN ACTIONS_
    /\ ActionRequested => BoundResolved

\* The request carries a picker query for a relation-typed input field of its
\* action
PickerOnOwnRelation ==
    /\ BoundResolved
    /\ Truthy(request.choices_field)
    /\ \E i \in DOMAIN ClassFields(BoundClass) :
          /\ ClassFields(BoundClass)[i].name = request.choices_field[1]
          /\ ClassFields(BoundClass)[i].type = "pk"

\* C10: a picker query on one of the action's own relation fields
\* short-circuits: the response is the choice-browser result over the related
\* type, and none of construct, fetch, attach, validate, submit is performed,
\* whatever the payload and whether or not the path id exists.
C10_PickerShortCircuit ==
    PickerOnOwnRelation =>
       /\ response = ChoicesResponse(AllRows("user"), request.choices_search)
       /\ steps = <<>>

-----------------------------------------------------------------------------
(* Choice-browser specification: pickers over small and large tables       *)

\* The characters search terms are made of
TermChars == {"j", "O", "1", " "}

MaxTermLen == 3

Terms == {None} \cup {Some(t) : t \in SeqsUpTo(TermChars, MaxTermLen)}

\* How many rows beyond the limit the large user table has
ExtraRows == 2

\* Usernames given to the users in turn
UsernamePools ==
    { << <<"J","o">>, <<"o","j","1">>, <<"j","1">>, <<"O">> >>,
      << <<"j","o">> >> }

UserTable(pool, n) ==
    [i \in 1..n |-> [id |-> i, username |-> pool[((i - 1) % Len(pool)) + 1]]]

RelatedOptions ==
    { [user |-> UserTable(pool, n), tag |-> Tags] :
        pool \in UsernamePools, n \in {3, ChoicesLimit + ExtraRows} }

ChoiceEntry ==
    [prefix |-> Some(N_pessoas), model |-> "core.pessoa", fieldsets |-> EmptyDict,
     list_fields |-> <<>>, view_fields |-> <<>>,
     list_actions |-> Binding(K_sub, N_RealizarSubtracao), view_actions |-> EmptyDict]

ChoiceRequests ==
    { Req("list", <<>>, 0, M_GET, None, Some(cf), term, EmptyDict) :
        cf \in { <<"o">>, <<"k">>, <<"a">> }, term \in Terms } \cup
    { Req("action", K_sub, 0, M_POST, None, Some(<<"u">>), term, EmptyDict) :
        term \in Terms }

InitChoices ==
    /\ ACTIONS_ = SourceRegistry
    /\ declared = SourceClasses
    /\ phase = "import"
    /\ viewset = NoViewSet
    /\ store \in StoreOptions
    /\ related \in RelatedOptions
    /\ request = NoRequest
    /\ response = NoResponse
    /\ steps = <<>>

NextChoices ==
    \/ LoadSpecification(ChoiceEntry)
    \/ \E q \in ChoiceRequests : List(q)
    \/ \E q \in ChoiceRequests : func(q)
    \/ Discard

SpecChoices == InitChoices /\ [][NextChoices]_vars

ChoicesAnswered == response.kind = "response" /\ response.body.type = "choices"

\* The related model the request browses
BrowsedModel ==
    IF request.op = "list" THEN RelatedModel(request.choices_field[1]) ELSE "user"

\* The candidate set: the related rows the listed records refer to (list), or
\* the whole related table (action field)
Candidates ==
    IF request.op = "list"
    THEN SelectSeq(related[BrowsedModel],
                   LAMBDA r : \E i \in DOMAIN store :
                                 Resolve(store[i], request.choices_field[1]) = r.id)
    ELSE related["user"]

\* The whitespace-separated tokens of the search term
Tokens ==
    IF request.choices_search = None THEN {}
    ELSE Range(Split(request.choices_search[1], " ")) \ {<<>>}

TermAbsentOrEmpty ==
    request.choices_search = None \/ request.choices_search[1] = <<>>

\* The first n elements of a sequence (all of it if shorter)
FirstN(seq, n) == SubSeq(seq, 1, IF Len(seq) < n THEN Len(seq) ELSE n)

AsItem(r) == [id |-> r.id, text |-> StrOf(BrowsedModel, r)]

\* The candidate an item was made from
CandidateOf(item) ==
    LET c == Candidates IN c[CHOOSE i \in DOMAIN c : c[i].id = item.id]

InSomeStringAttribute(r, tok) ==
    \E j \in DOMAIN CharFields(BrowsedModel) : IContains(r.username, tok)

\* C7 (as amended): the browser returns at most 20 {id, text} entries, each
\* made from a candidate that contains every token of the term,
\* case-insensitively, in at least one string-typed attribute -- or, for an
\* entity type without string-typed attributes, in its id; an empty or absent
\* term returns the candidate set truncated to 20.
C7_ChoiceBrowser ==
    ChoicesAnswered =>
       /\ Len(response.body.items) <= ChoicesLimit
       /\ \A i \in DOMAIN response.body.items :
             LET item == response.body.items[i]
             IN /\ \E j \in DOMAIN Candidates : Candidates[j].id = item.id
                /\ item = AsItem(CandidateOf(item))
                /\ \A tok \in Tokens :
                      IF CharFields(BrowsedModel) # <<>>
                      THEN InSomeStringAttribute(CandidateOf(item), tok)
                      ELSE IContains(DecStr(item.id), tok)
       /\ TermAbsentOrEmpty =>
             response.body.items =
                [i \in DOMAIN FirstN(Candidates, ChoicesLimit) |-> AsItem(Candidates[i])]

\* A search over more than 20 matching users is cut to 20
C7_Witness ==
    /\ ChoicesAnswered
    /\ request.op = "action"
    /\ request.choices_search = Some(<<"O", " ", "j">>)
    /\ Len(related.user) > ChoicesLimit
    /\ Len(response.body.items) = ChoicesLimit

\* C7 as stated: every returned entity contains every token in at least one
\* string-typed attribute.
C7_Original ==
    ChoicesAnswered =>
       /\ Len(response.body.items) <= ChoicesLimit
       /\ \A i \in DOMAIN response.body.items :
             \A tok \in Tokens :
                InSomeStringAttribute(CandidateOf(response.body.items[i]), tok)
       /\ TermAbsentOrEmpty =>
             response.body.items =
                [i \in DOMAIN FirstN(Candidates, ChoicesLimit) |-> AsItem(Candidates[i])]

====
